---- MODULE Spec2Model ----
(***************************************************************************)
(* The debate orchestration core of az-ai-kickstarter:                     *)
(*   src/backend/patterns/debate.py                                        *)
(*   src/backend/patterns/score_based_termination_strategy.py              *)
(*   src/backend/app.py (the /blog endpoint and its one DebatePattern)     *)
(*                                                                         *)
(* One DebatePattern is constructed from a DebateConfig and then serves    *)
(* run_debate sessions one after the other, as the module-level `debate`   *)
(* of app.py does.  The text-generation backend (selector, agents,         *)
(* evaluator, next-action describer) is an oracle: each call returns one   *)
(* of a small set of outputs or raises.                                    *)
(***************************************************************************)
EXTENDS Integers, Sequences, FiniteSets, TLC

(* ---------------------------------------------------------------------- *)
(* Bounds of the model                                                     *)
(* ---------------------------------------------------------------------- *)

\* largest maximum_iterations a configuration is given
MaxIterations == 2

\* number of run_debate sessions served by the one DebatePattern
MaxSessions == 2

(* ---------------------------------------------------------------------- *)
(* Program constants                                                       *)
(* ---------------------------------------------------------------------- *)

\* threshold: float = 8.0, in tenths
Threshold == 80

(* ---------------------------------------------------------------------- *)
(* Agents, configurations and inputs                                       *)
(* ---------------------------------------------------------------------- *)

\* agent objects: an identity (id) and a name; Writer2 is another object
\* that carries the name "Writer"
Writer == [id |-> 1, name |-> "Writer"]
Critic == [id |-> 2, name |-> "Critic"]
Writer2 == [id |-> 3, name |-> "Writer"]
NoAgent == [id |-> 0, name |-> ""]

\* values of DebateConfig.agents
Rosters == { <<>>, <<Writer>>, <<Writer, Critic>>, <<Critic, Writer>>, <<Writer, Writer2>> }

\* values of DebateConfig.termination_agents; None and [] are both falsy and
\* are the empty sequence here
TerminationAgentLists == { <<>>, <<Critic>>, <<Writer2>> }

\* values of DebateConfig.result_extractor: None, or the endpoint's lambda
ResultExtractors == { "None", "LastWriter" }

Configs ==
  [ agents : Rosters,
    maximum_iterations : 0..MaxIterations,
    termination_agents : TerminationAgentLists,
    termination_function : BOOLEAN,
    result_extractor : ResultExtractors ]

NoConfig ==
  [ agents |-> <<>>, maximum_iterations |-> 0, termination_agents |-> <<>>,
    termination_function |-> FALSE, result_extractor |-> "None" ]

\* seed messages (conversation_messages): role and author name
UserMsg == [role |-> "user", name |-> "user"]
SystemMsg == [role |-> "system", name |-> ""]
AssistantMsg == [role |-> "assistant", name |-> "Writer"]
SeedLists == { <<>>, <<UserMsg>>, <<SystemMsg, UserMsg>>, <<UserMsg, AssistantMsg>> }

\* what the speaker-selection function returns: no value, or the text of
\* its first item
NoValue == "<None>"
NotAsked == "<not asked>"
CallFailed == "<call failed>"
SelectorOutputs == { NoValue, "Writer", "Critic", "writer", "" }

\* what the termination evaluator returns, as str(res_val)
EvaluatorOutputs == { "7.9", "8", "9.5", "8/10" }

Names(agents) == { agents[k].name : k \in 1..Len(agents) }
Ids(agents) == { agents[k].id : k \in 1..Len(agents) }

(* ---------------------------------------------------------------------- *)
(* State                                                                   *)
(* ---------------------------------------------------------------------- *)

VARIABLES
  cfg,          \* the DebateConfig arguments given to the constructor
  build,        \* "none" | "rejected" | "init_failed" | "built"
  history,      \* agent_group_chat.history.messages
  is_complete,  \* agent_group_chat.is_complete
  iteration,    \* termination_strategy.iteration
  session,      \* number of run_debate calls made on the pattern
  pc,           \* position of the current session
  seed,         \* conversation_messages of the current session
  initial_message,  \* whether run_debate was given a non-empty initial_message
  i,            \* iterations of AgentGroupChat.invoke's loop in this session
  selection,    \* what the selection function returned for this turn
  selected,     \* the agent the selection strategy returned
  messages,     \* process_conversation's local list (indices into history)
  check,        \* the last termination check of this session
  stream,       \* events the session has yielded to its caller
  span,         \* the tracing span of the session
  failure,      \* the exception that ended the session, "" when none
  chat,         \* the frontend: chainlit's user session and what it sent
  telemetry,    \* utils/otel.py: _telemetry_initialized and the registrations
  loader        \* load_agents.py: main's locals, the agent service, its calls

vars == << cfg, build, history, is_complete, iteration, session, pc, seed,
           initial_message, i, selection, selected, messages, check, stream,
           span, failure, chat, telemetry, loader >>

\* the variables of the debate backend
debate_vars ==
  << cfg, build, history, is_complete, iteration, session, pc, seed,
     initial_message, i, selection, selected, messages, check, stream,
     span, failure >>

NoCheck ==
  [made |-> FALSE, called |-> FALSE, out |-> "", verdict |-> FALSE,
   logged |-> FALSE, turn |-> 0]

\* chainlit's user session before on_chat_start, and nothing sent
NoChat ==
  [ started |-> FALSE, client |-> "None", agents |-> <<>>, profile |-> "None",
    agent |-> "None", thread |-> "None", received |-> <<>>, sent |-> <<>>,
    responses |-> 0 ]

\* _telemetry_initialized as the module defines it, and no provider or
\* handler registered
NoTelemetry ==
  [ initialized |-> [k \in {"tracing", "metrics", "logging"} |-> FALSE],
    registered |-> [k \in {"tracing", "metrics", "logging"} |-> 0],
    calls |-> [k \in {"tracing", "metrics", "logging"} |-> 0] ]

\* the loader before main runs
NoLoader ==
  [ pc |-> "idle", reload |-> FALSE, service |-> {}, listed |-> {},
    agents |-> {}, todo |-> <<>>, specs |-> <<>>, at |-> 0, calls |-> <<>>,
    next_id |-> 0 ]

Init ==
  /\ cfg = NoConfig
  /\ build = "none"
  /\ history = <<>>
  /\ is_complete = FALSE
  /\ iteration = 0
  /\ session = 0
  /\ pc = "idle"
  /\ seed = <<>>
  /\ initial_message = FALSE
  /\ i = 0
  /\ selection = NotAsked
  /\ selected = NoAgent
  /\ messages = <<>>
  /\ check = NoCheck
  /\ stream = <<>>
  /\ span = "none"
  /\ failure = ""
  /\ chat = NoChat
  /\ telemetry = NoTelemetry
  /\ loader = NoLoader

(* ---------------------------------------------------------------------- *)
(* DebateConfig validation and DebatePattern construction                  *)
(* ---------------------------------------------------------------------- *)

\* agents: List[Any] = Field(..., min_length=1)
agents_field(c) == Len(c.agents) >= 1

\* the bound written as ge=0
maximum_iterations_field_ge0(c) == c.maximum_iterations >= 0

\* maximum_iterations: int = Field(6, ge=1)
maximum_iterations_field(c) == c.maximum_iterations >= 1

\* the validator with its loop body missing
check_termination_agents_unchecked(c) == TRUE

\* the model validator: every termination agent's name is a roster name
check_termination_agents(c) ==
  IF c.termination_agents # <<>>
  THEN \A k \in 1..Len(c.termination_agents) :
         c.termination_agents[k].name \in Names(c.agents)
  ELSE TRUE

\* DebateConfig(...) returns an object (no ValidationError)
DebateConfigValid(c) ==
  /\ agents_field(c)
  /\ maximum_iterations_field(c)
  /\ check_termination_agents(c)

\* ScoreBasedTerminationStrategy declares termination_function as a field
\* with no default: the constructor raises unless it is passed, and
\* _setup_agent_group_chat passes it only when the prompt is truthy
TerminationStrategyBuilt(c) == c.termination_function

\* agents of the termination strategy: termination_agents or agents
StrategyAgents(c) ==
  IF c.termination_agents # <<>> THEN c.termination_agents ELSE c.agents

\* config = DebateConfig(...); debate = DebatePattern(config=config), the
\* configuration being one of `configs`
ConstructFrom(configs) ==
  /\ build = "none"
  /\ \E c \in configs :
       /\ cfg' = c
       /\ build' = IF ~DebateConfigValid(c) THEN "rejected"
                   ELSE IF ~TerminationStrategyBuilt(c) THEN "init_failed"
                   ELSE "built"
  /\ UNCHANGED << history, is_complete, iteration, session, pc, seed, initial_message, chat, telemetry, loader, i,
                  selection, selected, messages, check, stream, span, failure >>

\* construction from any configuration
Construct == ConstructFrom(Configs)

(* ---------------------------------------------------------------------- *)
(* process_conversation                                                    *)
(* ---------------------------------------------------------------------- *)

\* a filter that keeps the user's messages only
FilterSeed_user_only(s) == SelectSeq(s, LAMBDA m : m.role = "user")

\* filter(lambda m: m['role'] in ("assistant", "user"), conversation_messages)
FilterSeed(s) == SelectSeq(s, LAMBDA m : m.role \in {"assistant", "user"})

\* the ChatMessageContent objects built from the filtered seed; every message
\* of the chat history carries the session that added it and the turn of
\* that session that produced it (0 for a seed message)
ChatHistory(s, n) ==
  [ k \in 1..Len(FilterSeed(s)) |->
      [sess |-> n, turn |-> 0, role |-> FilterSeed(s)[k].role,
       name |-> FilterSeed(s)[k].name] ]

StatusEvent(src, n) == [kind |-> "status", src |-> src, msg |-> n]
ArtifactEvent(k) == [kind |-> "artifact", src |-> "result", msg |-> k]

\* an exception swallowed inside the generator, which then just ends
Raise_swallowed(reason) ==
  /\ pc' = "failed"
  /\ failure' = ""
  /\ span' = "closed"

\* an exception that leaves the span as it was
Raise_leaking(reason) ==
  /\ pc' = "failed"
  /\ failure' = reason
  /\ UNCHANGED span

\* an exception leaves process_conversation: the generator ends, and the
\* with-block (when still open) closes the span on the way out
Raise(reason) ==
  /\ pc' = "failed"
  /\ failure' = reason
  /\ span' = "closed"

\* the arguments of one run_debate call: any seed and initial message on a
\* fresh pattern; a pattern that has served a session before is the
\* endpoint's module-level `debate`, which http_blog calls with one user
\* message and no initial message
SessionInputs ==
  IF session = 0
  THEN [seed : SeedLists, initial_message : BOOLEAN]
  ELSE { [seed |-> <<UserMsg>>, initial_message |-> FALSE] }

\* the initial event yielded whether or not a message was given
InitialEvents_always(given) == << StatusEvent("initial", 0) >>

\* lines 211-212: if initial_message: yield initial_message
InitialEvents(given) ==
  IF given THEN << StatusEvent("initial", 0) >> ELSE <<>>

\* positions at which no session is running: run_debate can be called
Resting == {"idle", "done", "failed", "abandoned"}

\* lines 191-212: load the seed into the group chat, open the span and
\* yield the initial message when one is given
StartSession ==
  /\ build = "built"
  /\ pc \in Resting
  /\ session < MaxSessions
  /\ \E in \in SessionInputs :
       /\ seed' = in.seed
       /\ history' = history \o ChatHistory(in.seed, session + 1)
       /\ initial_message' = in.initial_message
       /\ stream' = InitialEvents(in.initial_message)
  /\ session' = session + 1
  /\ span' = "open"
  /\ pc' = "invoke"
  /\ i' = 0
  /\ selection' = NotAsked
  /\ selected' = NoAgent
  /\ messages' = <<>>
  /\ check' = NoCheck
  /\ failure' = ""
  /\ UNCHANGED << cfg, build, is_complete, iteration, chat, telemetry, loader >>

\* AgentGroupChat.invoke, before its loop: a chat whose is_complete is set
\* raises unless the termination strategy has automatic_reset (it has not)
InvokeBegin ==
  /\ pc = "invoke"
  /\ IF is_complete
     THEN Raise("AgentChatException: chat is already complete")
     ELSE pc' = "loop" /\ UNCHANGED << failure, span >>
  /\ UNCHANGED << cfg, build, history, is_complete, iteration, session, seed, initial_message, chat, telemetry, loader,
                  i, selection, selected, messages, check, stream >>

\* a loop that only the termination verdict ends
InRange_unbounded(n, c) == TRUE

\* a range that runs one iteration more
InRange_inclusive(n, c) == n <= c.maximum_iterations

\* for _ in range(self.termination_strategy.maximum_iterations)
InRange(n, c) == n < c.maximum_iterations

\* the loop head without the break on is_complete
LoopNext_no_break ==
  /\ pc = "loop"
  /\ IF InRange(i, cfg)
     THEN /\ i' = i + 1
          /\ pc' = "select"
          /\ UNCHANGED span
     ELSE /\ pc' = "extract"
          /\ span' = "closed"
          /\ UNCHANGED i
  /\ UNCHANGED << cfg, build, history, is_complete, iteration, session, seed, initial_message, chat, telemetry, loader,
                  selection, selected, messages, check, stream, failure >>

\* a loop head that starts the next turn while the termination check of
\* the last one is still pending
LoopNext_speculative ==
  /\ pc \in {"loop", "terminate"}
  /\ IF ~is_complete /\ InRange(i, cfg)
     THEN /\ i' = i + 1
          /\ pc' = "select"
          /\ UNCHANGED span
     ELSE /\ pc' = "extract"
          /\ span' = "closed"
          /\ UNCHANGED i
  /\ UNCHANGED << cfg, build, history, is_complete, iteration, session, seed, initial_message, chat, telemetry, loader,
                  selection, selected, messages, check, stream, failure >>

\* the head of invoke's loop, and its `if self.is_complete: break`
LoopNext ==
  /\ pc = "loop"
  /\ IF ~is_complete /\ InRange(i, cfg)
     THEN /\ i' = i + 1
          /\ pc' = "select"
          /\ UNCHANGED span
     ELSE /\ pc' = "extract"
          /\ span' = "closed"
          /\ UNCHANGED i
  /\ UNCHANGED << cfg, build, history, is_complete, iteration, session, seed, initial_message, chat, telemetry, loader,
                  selection, selected, messages, check, stream, failure >>

(* ---------------------------------------------------------------------- *)
(* One turn: selection, agent reply, termination check, status event       *)
(* ---------------------------------------------------------------------- *)

\* parse_selection_output: the selector's text, or the first agent's name
\* when the function returned no value
parse_selection_output(output, agents) ==
  IF output # NoValue THEN output ELSE agents[1].name

\* KernelFunctionSelectionStrategy: the first agent carrying the parsed name;
\* NoAgent when the name is empty or no agent carries it (the strategy then
\* raises)
AgentNamed(name, agents) ==
  IF name # "" /\ name \in Names(agents)
  THEN agents[CHOOSE k \in 1..Len(agents) :
                /\ agents[k].name = name
                /\ \A j \in 1..(k - 1) : agents[j].name # name]
  ELSE NoAgent

\* selection_strategy.next(agents, history) inside invoke's try/except
Select ==
  /\ pc = "select"
  /\ \/ \E output \in SelectorOutputs :
          LET agent == AgentNamed(parse_selection_output(output, cfg.agents), cfg.agents)
          IN /\ selection' = output
             /\ IF agent # NoAgent
                THEN /\ selected' = agent
                     /\ pc' = "agent"
                     /\ UNCHANGED << failure, span >>
                ELSE /\ Raise("AgentChatException: failed to select agent")
                     /\ UNCHANGED selected
     \/ \* the selection function call itself fails
        /\ selection' = CallFailed
        /\ Raise("AgentChatException: failed to select agent")
        /\ UNCHANGED selected
  /\ UNCHANGED << cfg, build, history, is_complete, iteration, session, seed, initial_message, chat, telemetry, loader,
                  i, messages, check, stream >>

\* invoke_agent(selected_agent): the reply is appended to the chat history
AgentReply ==
  /\ pc = "agent"
  /\ \/ /\ history' = Append(history,
                        [sess |-> session, turn |-> i, role |-> "assistant",
                         name |-> selected.name])
        /\ pc' = "terminate"
        /\ UNCHANGED << failure, span >>
     \/ \* the reply-generation backend fails
        /\ Raise("GenerationError")
        /\ UNCHANGED history
  /\ UNCHANGED << cfg, build, is_complete, iteration, session, seed, initial_message, chat, telemetry, loader, i,
                  selection, selected, messages, check, stream >>

\* float(str(res_val)), in tenths; ok is FALSE where float raises ValueError
PyFloat(text) ==
  CASE text = "5" -> [ok |-> TRUE, tenths |-> 50]
    [] text = "7.9" -> [ok |-> TRUE, tenths |-> 79]
    [] text = "8" -> [ok |-> TRUE, tenths |-> 80]
    [] text = "9" -> [ok |-> TRUE, tenths |-> 90]
    [] text = "9.5" -> [ok |-> TRUE, tenths |-> 95]
    [] OTHER -> [ok |-> FALSE, tenths |-> 0]

\* the comparison written as >
MeetsThreshold_strict(tenths) == tenths > Threshold

\* float(str(res_val)) >= self.threshold
MeetsThreshold(tenths) == tenths >= Threshold

\* the except branch terminating, silently, on an unparseable score
ScoreVerdict_stop_on_error(text) ==
  IF PyFloat(text).ok
  THEN [verdict |-> PyFloat(text).tenths >= Threshold, logged |-> FALSE]
  ELSE [verdict |-> TRUE, logged |-> FALSE]

\* lines 33-37 of should_agent_terminate: the verdict, and whether the
\* ValueError was logged
ScoreVerdict(text) ==
  IF PyFloat(text).ok
  THEN [verdict |-> MeetsThreshold(PyFloat(text).tenths), logged |-> FALSE]
  ELSE [verdict |-> FALSE, logged |-> TRUE]

\* every agent is evaluated, whatever the strategy's agents
Evaluated_everyone(agent, c) == TRUE

\* only the agent named Critic is evaluated, whatever the strategy's agents
Evaluated_critic_only(agent, c) == agent.name = "Critic"

\* TerminationStrategy.should_terminate: an agent outside the strategy's
\* agents is not evaluated
Evaluated(agent, c) ==
  ~(StrategyAgents(c) # <<>> /\ agent.id \notin Ids(StrategyAgents(c)))

\* self.is_complete = await should_terminate(selected_agent, history), the
\* evaluator answering with one of `outputs`
ShouldTerminate(outputs) ==
  /\ pc = "terminate"
  /\ \/ /\ ~Evaluated(selected, cfg)
        /\ is_complete' = FALSE
        /\ check' = [made |-> TRUE, called |-> FALSE, out |-> "",
                     verdict |-> FALSE, logged |-> FALSE, turn |-> i]
        /\ pc' = "describe"
        /\ UNCHANGED << iteration, failure, span >>
     \/ /\ Evaluated(selected, cfg)
        /\ iteration' = iteration + 1
        /\ \E text \in outputs :
             /\ is_complete' = ScoreVerdict(text).verdict
             /\ check' = [made |-> TRUE, called |-> TRUE, out |-> text,
                          verdict |-> ScoreVerdict(text).verdict,
                          logged |-> ScoreVerdict(text).logged, turn |-> i]
        /\ pc' = "describe"
        /\ UNCHANGED << failure, span >>
     \/ \* the evaluator call fails
        /\ Evaluated(selected, cfg)
        /\ iteration' = iteration + 1
        /\ Raise("KernelInvokeException: TerminationEvaluator")
        /\ UNCHANGED << is_complete, check >>
  /\ UNCHANGED << cfg, build, history, session, seed, initial_message, chat, telemetry, loader, i, selection,
                  selected, messages, stream >>

\* the termination check with the evaluator's answer unconstrained
TerminationCheck == ShouldTerminate(EvaluatorOutputs)

\* a loop body that describes the whole chat history, seed included
DescribeNextAction_whole_history ==
  /\ pc = "describe"
  /\ messages' = [k \in 1..Len(history) |-> k]
  /\ stream' = Append(stream, StatusEvent("next_action", Len(history)))
  /\ pc' = "loop"
  /\ UNCHANGED << cfg, build, history, is_complete, iteration, session, seed,
                  initial_message, chat, telemetry, loader, i, selection, selected, check, failure,
                  span >>

\* lines 215-219: the loop body of process_conversation for one message
DescribeNextAction ==
  /\ pc = "describe"
  /\ messages' = Append(messages, Len(history))
  /\ \/ /\ stream' = Append(stream, StatusEvent("next_action", Len(messages) + 1))
        /\ pc' = "loop"
        /\ UNCHANGED << failure, span >>
     \/ \* kernel.invoke_prompt fails
        /\ Raise("KernelInvokeException: describe_next_action")
        /\ UNCHANGED stream
  /\ UNCHANGED << cfg, build, history, is_complete, iteration, session, seed, initial_message, chat, telemetry, loader,
                  i, selection, selected, check >>

(* ---------------------------------------------------------------------- *)
(* Result extraction                                                       *)
(* ---------------------------------------------------------------------- *)

\* positions in all_messages (chronological order) of the messages whose
\* author name is `name`
Authored(name, all_messages) ==
  { k \in 1..Len(all_messages) : all_messages[k].name = name }

Last(S) == CHOOSE k \in S : \A j \in S : j <= k

\* the endpoint's extractor: [r for r in messages if r.name == "Writer"][-1];
\* 0 stands for the IndexError it raises on an empty list
LastWriter(all_messages) ==
  IF Authored("Writer", all_messages) # {}
  THEN Last(Authored("Writer", all_messages))
  ELSE 0

\* the first agent's oldest message taken in place of its newest
DefaultExtraction_oldest(all_messages, agents) ==
  IF Authored(agents[1].name, all_messages) # {}
  THEN CHOOSE k \in Authored(agents[1].name, all_messages) :
         \A j \in Authored(agents[1].name, all_messages) : k <= j
  ELSE IF all_messages # <<>> THEN 1 ELSE 0

\* lines 229-234: the last message of the first agent; without one,
\* all_messages[0], or position 0 for {"content": "No results available"}
DefaultExtraction(all_messages, agents) ==
  IF Authored(agents[1].name, all_messages) # {}
  THEN Last(Authored(agents[1].name, all_messages))
  ELSE IF all_messages # <<>> THEN 1 ELSE 0

\* what lines 224-234 compute from a transcript: the position of the
\* extracted message, 0 for the placeholder of the default policy, and
\* "raises" where the configured extractor raises
Extraction(all_messages, c) ==
  IF c.result_extractor = "None"
  THEN DefaultExtraction(all_messages, c.agents)
  ELSE IF LastWriter(all_messages) # 0
       THEN LastWriter(all_messages)
       ELSE "raises"

\* an extraction that takes the extracted message out of the chat history
Extract_consuming ==
  /\ pc = "extract"
  /\ cfg.result_extractor = "None"
  /\ stream' = Append(stream, ArtifactEvent(DefaultExtraction(history, cfg.agents)))
  /\ history' = SubSeq(history, 1, Len(history) - 1)
  /\ pc' = "done"
  /\ UNCHANGED << cfg, build, is_complete, iteration, session, seed,
                  initial_message, chat, telemetry, loader, i, selection, selected, messages, check,
                  failure, span >>

\* lines 221-234
Extract ==
  /\ pc = "extract"
  /\ \/ /\ cfg.result_extractor = "None"
        /\ stream' = Append(stream, ArtifactEvent(DefaultExtraction(history, cfg.agents)))
        /\ pc' = "done"
        /\ UNCHANGED << failure, span >>
     \/ /\ cfg.result_extractor = "LastWriter"
        /\ LastWriter(history) # 0
        /\ stream' = Append(stream, ArtifactEvent(LastWriter(history)))
        /\ pc' = "done"
        /\ UNCHANGED << failure, span >>
     \/ \* the extractor raises, and nothing catches it
        /\ cfg.result_extractor = "LastWriter"
        /\ LastWriter(history) = 0
        /\ Raise("IndexError: result_extractor")
        /\ UNCHANGED stream
  /\ UNCHANGED << cfg, build, history, is_complete, iteration, session, seed, initial_message, chat, telemetry, loader,
                  i, selection, selected, messages, check >>

Next ==
  \/ Construct
  \/ StartSession
  \/ InvokeBegin
  \/ LoopNext
  \/ Select
  \/ AgentReply
  \/ TerminationCheck
  \/ DescribeNextAction
  \/ Extract

Spec == Init /\ [][Next]_vars

(* ---------------------------------------------------------------------- *)
(* The consumer of the stream may stop iterating                           *)
(* ---------------------------------------------------------------------- *)

\* the generator is suspended at a yield inside the with-block: after the
\* initial message, or after a status event
SuspendedInSpan ==
  \/ pc = "invoke" /\ initial_message
  \/ pc = "loop" /\ messages # <<>>

\* the consumer abandons the stream: closing the generator raises
\* GeneratorExit at the yield, and the with-block closes the span
Abandon ==
  /\ SuspendedInSpan
  /\ pc' = "abandoned"
  /\ span' = "closed"
  /\ UNCHANGED << cfg, build, history, is_complete, iteration, session, seed,
                  initial_message, chat, telemetry, loader, i, selection, selected, messages, check,
                  stream, failure >>

ConsumerNext ==
  \/ Construct
  \/ StartSession
  \/ InvokeBegin
  \/ LoopNext
  \/ Select
  \/ AgentReply
  \/ TerminationCheck
  \/ DescribeNextAction
  \/ Extract
  \/ Abandon

ConsumerSpec == Init /\ [][ConsumerNext]_vars

(* ---------------------------------------------------------------------- *)
(* End-to-end scenarios: one debate of roster [Writer, Critic] with        *)
(* maximum_iterations 6, driven by simulated services that do not fail     *)
(* ---------------------------------------------------------------------- *)

\* maximum_iterations=6, as the endpoint configures it
ScenarioIterations == 6

\* the simulated evaluator's answers: scenario A's two scores in the order
\* of the calls, scenario B's scores, all below the threshold
ScenarioAScores == << "5", "9" >>
ScenarioBScores == { "5", "7.9" }

\* the scenarios' configurations; the kernel field names the simulated
\* services behind config.kernel. Scenario A leaves termination_agents
\* unset, so that every turn is scored; scenario B runs with it unset and
\* with the endpoint's [critic]
ScenarioConfigs ==
  { c \in [ agents : { <<Writer, Critic>> },
            maximum_iterations : { ScenarioIterations },
            termination_agents : { <<>>, <<Critic>> },
            termination_function : { TRUE },
            result_extractor : ResultExtractors,
            kernel : { "A", "B" } ] :
      c.kernel = "A" => c.termination_agents = <<>> }

\* what the simulated evaluator answers to its next call; the strategy's
\* iteration field counts the calls made so far on this fresh pattern
SimulatedScores ==
  IF cfg.kernel = "A"
  THEN IF iteration < Len(ScenarioAScores)
       THEN { ScenarioAScores[iteration + 1] }
       ELSE {}
  ELSE ScenarioBScores

\* the simulated selector obeys the endpoint's selection prompt: it answers
\* with an agent name, and "Critic should never be the first speaker, or
\* speak 2 times in a row"
SimulatedSelector ==
  /\ selection' \in { "Writer", "Critic" }
  /\ selection' = "Critic" =>
        /\ i > 1
        /\ history[Len(history)].name # "Critic"

ScenarioConstruct == ConstructFrom(ScenarioConfigs)

\* the one run_debate call of a scenario: one user message as the seed
ScenarioStart ==
  /\ session = 0
  /\ StartSession
  /\ seed' = << UserMsg >>

ScenarioSelect == Select /\ SimulatedSelector
ScenarioAgentReply == AgentReply /\ pc' # "failed"
ScenarioTerminationCheck == ShouldTerminate(SimulatedScores) /\ pc' # "failed"
ScenarioDescribe == DescribeNextAction /\ pc' # "failed"

ScenarioNext ==
  \/ ScenarioConstruct
  \/ ScenarioStart
  \/ InvokeBegin
  \/ LoopNext
  \/ ScenarioSelect
  \/ ScenarioAgentReply
  \/ ScenarioTerminationCheck
  \/ ScenarioDescribe
  \/ Extract

ScenarioSpec == Init /\ [][ScenarioNext]_vars

(* ---------------------------------------------------------------------- *)
(* The chat frontend (frontend/app.py)                                     *)
(* ---------------------------------------------------------------------- *)

\* incoming messages handled per chat
MaxMessages == 3

\* what client.agents.list_agents() returns: agent definitions, by name
ListedAgents == { <<>>, << "Writer" >>, << "Writer", "Critic" >> }

\* cl.user_session.get("chat_profile")
ChatProfiles == { "None", "Writer", "Critic" }

\* message.content
Contents == { "hello", "again" }

\* next((agent for agent in agents if agent["name"] == agent_name), None)
MatchingAgent(agents, agent_name) ==
  IF \E k \in 1..Len(agents) : agents[k] = agent_name
  THEN agents[CHOOSE k \in 1..Len(agents) :
                /\ agents[k] = agent_name
                /\ \A j \in 1..(k - 1) : agents[j] # agent_name]
  ELSE "None"

\* on_chat_start: store the client, the listed agents and the agent whose
\* name is the chat profile; announce the profile
on_chat_start ==
  /\ ~chat.started
  /\ \E listed \in ListedAgents, agent_name \in ChatProfiles :
       chat' = [ chat EXCEPT
                   !.started = TRUE,
                   !.client = "client",
                   !.agents = listed,
                   !.profile = agent_name,
                   !.agent = MatchingAgent(listed, agent_name),
                   !.sent = Append(@, [kind |-> "starting", to |-> agent_name]) ]
  /\ UNCHANGED << debate_vars, telemetry, loader >>

\* lines 149-151 of on_message: client = cl.user_session.get("client"),
\* then `client = None`
MessageClient(stored) == "None"

\* on_message: without a client or an agent definition, a notice; else the
\* agent's response on the stored thread, and the returned thread stored
on_message ==
  /\ chat.started
  /\ Len(chat.received) < MaxMessages
  /\ \E content \in Contents :
       LET client == MessageClient(chat.client)
           agent_definition == chat.agent
       IN IF client = "None" \/ agent_definition = "None"
          THEN chat' = [ chat EXCEPT
                           !.received = Append(@, content),
                           !.sent = Append(@, [kind |-> "no_agent", to |-> content]) ]
          ELSE chat' = [ chat EXCEPT
                           !.received = Append(@, content),
                           !.responses = @ + 1,
                           !.thread = chat.responses + 1,
                           !.sent = Append(@, [kind |-> "response", to |-> content]) ]
  /\ UNCHANGED << debate_vars, telemetry, loader >>

FrontendNext ==
  \/ on_chat_start
  \/ on_message

FrontendSpec == Init /\ [][FrontendNext]_vars

(* ---------------------------------------------------------------------- *)
(* Telemetry setup (backend/utils/otel.py)                                 *)
(* ---------------------------------------------------------------------- *)

\* calls made to each of the three setup functions
MaxCalls == 3

TelemetryKinds == { "tracing", "metrics", "logging" }

\* os.getenv("APPLICATIONINSIGHTS_CONNECTION_STRING") at the time of a call:
\* unset, a connection string, or a string the exporter rejects
ConnectionStrings == { "", "valid", "malformed" }

\* local_endpoint = None
local_endpoint == "None"

\* the guard that never finds the kind initialised
AlreadyInitialized_never(kind) == FALSE

\* if _telemetry_initialized[kind]: return
AlreadyInitialized(kind) == telemetry.initialized[kind]

\* the exporters list a call builds: one Azure Monitor exporter when the
\* connection string is set, one local exporter when local_endpoint is
Exporters(connection_string) ==
  (IF connection_string # "" THEN << "AzureMonitor" >> ELSE <<>>)
    \o (IF local_endpoint # "None" THEN << "OTLP" >> ELSE <<>>)

\* one call of set_up_tracing, set_up_metrics or set_up_logging: return
\* when already initialised or when no exporter is configured; else
\* register the provider (and, for logging, the handler) and set the flag.
\* A malformed connection string makes the exporter's constructor raise,
\* before anything is registered
SetUp(kind) ==
  /\ telemetry.calls[kind] < MaxCalls
  /\ \E connection_string \in ConnectionStrings :
       IF AlreadyInitialized(kind)
       THEN telemetry' = [ telemetry EXCEPT !.calls[kind] = @ + 1 ]
       ELSE IF connection_string = "malformed"
            THEN telemetry' = [ telemetry EXCEPT !.calls[kind] = @ + 1 ]
       ELSE IF Exporters(connection_string) = <<>>
            THEN telemetry' = [ telemetry EXCEPT !.calls[kind] = @ + 1 ]
       ELSE telemetry' = [ telemetry EXCEPT
                             !.calls[kind] = @ + 1,
                             !.registered[kind] = @ + 1,
                             !.initialized[kind] = TRUE ]
  /\ UNCHANGED << debate_vars, chat, loader >>

set_up_tracing == SetUp("tracing")
set_up_metrics == SetUp("metrics")
set_up_logging == SetUp("logging")

TelemetryNext ==
  \/ set_up_tracing
  \/ set_up_metrics
  \/ set_up_logging

TelemetrySpec == Init /\ [][TelemetryNext]_vars

(* ---------------------------------------------------------------------- *)
(* The agent loader (frontend/load_agents.py)                              *)
(* ---------------------------------------------------------------------- *)

\* YAML files in the agents directory
MaxSpecs == 2

AgentNames == { "Writer", "Critic" }

RECURSIVE SeqsUpTo(_, _)
SeqsUpTo(S, n) ==
  IF n = 0 THEN { <<>> }
  ELSE SeqsUpTo(S, n - 1)
         \cup { Append(s, x) : s \in { t \in SeqsUpTo(S, n - 1) : Len(t) = n - 1 },
                               x \in S }

\* the agent_spec["name"] of the YAML files, in the order of the sorted paths
SpecLists == SeqsUpTo(AgentNames, MaxSpecs)

\* the agents the service holds when main starts; the service does not keep
\* names unique
ExistingAgents ==
  { {},
    { [id |-> 1, name |-> "Writer"] },
    { [id |-> 1, name |-> "Writer"], [id |-> 2, name |-> "Critic"] },
    { [id |-> 1, name |-> "Writer"], [id |-> 2, name |-> "Writer"] } }

\* os.environ.get("RELOAD") is not None
ReloadValues == BOOLEAN

NamesOf(S) == { a.name : a \in S }

\* {agent.name: agent async for agent in list_agents()}: one agent per
\* listed name (for a repeated name, whichever the listing yields last)
AgentDicts(listed) ==
  { d \in SUBSET listed :
      /\ NamesOf(d) = NamesOf(listed)
      /\ \A a, b \in d : a.name = b.name => a = b }

\* lines 19-25: list the agents and build the dict
main_list ==
  /\ loader.pc = "idle"
  /\ \E existing \in ExistingAgents, reload \in ReloadValues,
        specs \in SpecLists :
       \E d \in AgentDicts(existing) :
         loader' = [ loader EXCEPT
                       !.pc = IF reload THEN "delete" ELSE "apply",
                       !.reload = reload,
                       !.service = existing,
                       !.listed = existing,
                       !.agents = d,
                       !.todo = d,
                       !.specs = specs,
                       !.next_id = 3 ]
  /\ UNCHANGED << debate_vars, chat, telemetry >>

\* lines 26-31: delete_agent for each value of the dict, then agents = {}
main_reload ==
  /\ loader.pc = "delete"
  /\ IF loader.todo = {}
     THEN loader' = [ loader EXCEPT !.pc = "apply", !.agents = {} ]
     ELSE \E a \in loader.todo :
            \/ loader' = [ loader EXCEPT
                             !.todo = @ \ {a},
                             !.service = @ \ {a},
                             !.calls = Append(@, [op |-> "delete", name |-> a.name,
                                                  id |-> a.id]) ]
            \/ \* the call fails
               loader' = [ loader EXCEPT !.pc = "failed" ]
  /\ UNCHANGED << debate_vars, chat, telemetry >>

\* lines 33-54: one YAML file: create_agent when its name is not a key of
\* the dict, update_agent on the dict's agent otherwise; the dict is not
\* changed
main_apply ==
  /\ loader.pc = "apply"
  /\ loader.at < Len(loader.specs)
  /\ LET name == loader.specs[loader.at + 1]
     IN \/ IF name \notin NamesOf(loader.agents)
           THEN loader' = [ loader EXCEPT
                              !.at = @ + 1,
                              !.service = @ \cup { [id |-> loader.next_id, name |-> name] },
                              !.next_id = @ + 1,
                              !.calls = Append(@, [op |-> "create", name |-> name,
                                                   id |-> loader.next_id]) ]
           ELSE LET known == CHOOSE a \in loader.agents : a.name = name
                IN loader' = [ loader EXCEPT
                                 !.at = @ + 1,
                                 !.calls = Append(@, [op |-> "update", name |-> name,
                                                      id |-> known.id]) ]
        \/ \* the call fails
           loader' = [ loader EXCEPT !.pc = "failed" ]
  /\ UNCHANGED << debate_vars, chat, telemetry >>

\* the loop over the files is exhausted
main_return ==
  /\ loader.pc = "apply"
  /\ loader.at = Len(loader.specs)
  /\ loader' = [ loader EXCEPT !.pc = "done" ]
  /\ UNCHANGED << debate_vars, chat, telemetry >>

LoaderNext ==
  \/ main_list
  \/ main_reload
  \/ main_apply
  \/ main_return

LoaderSpec == Init /\ [][LoaderNext]_vars

(* ---------------------------------------------------------------------- *)
(* Vocabulary of the properties                                            *)
(* ---------------------------------------------------------------------- *)

Running == {"invoke", "loop", "select", "agent", "terminate", "describe", "extract"}
Ended == {"done", "failed"}

\* positions of the chat history that the agent turns of the current
\* session appended
SessionTurns ==
  { k \in 1..Len(history) : history[k].sess = session /\ history[k].turn > 0 }

\* the steps a session at this position may still take
Rank ==
  CASE pc = "invoke" -> 5 * cfg.maximum_iterations + 3
    [] pc = "loop" -> 5 * (cfg.maximum_iterations - i) + 2
    [] pc = "select" -> 5 * (cfg.maximum_iterations - i) + 6
    [] pc = "agent" -> 5 * (cfg.maximum_iterations - i) + 5
    [] pc = "terminate" -> 5 * (cfg.maximum_iterations - i) + 4
    [] pc = "describe" -> 5 * (cfg.maximum_iterations - i) + 3
    [] pc = "extract" -> 1
    [] OTHER -> 0

ArtifactPositions == { k \in 1..Len(stream) : stream[k].kind = "artifact" }

\* a non-empty stream of status events closed by its one artifact event
StreamWellFormed ==
  /\ stream # <<>>
  /\ ArtifactPositions = { Len(stream) }

\* exceptions of the text-generation backend, which the session surfaces
BackendFailures ==
  { "GenerationError", "KernelInvokeException: TerminationEvaluator",
    "KernelInvokeException: describe_next_action" }

(* ---------------------------------------------------------------------- *)
(* Properties                                                              *)
(* ---------------------------------------------------------------------- *)

\* a step of a running session keeps the turn count within
\* maximum_iterations and strictly lowers the non-negative rank
BoundedStep ==
  pc \in Running =>
    /\ Cardinality(SessionTurns') <= cfg.maximum_iterations
    /\ Len(messages') <= cfg.maximum_iterations
    /\ Rank' >= 0
    /\ Rank' < Rank

\* C1: whatever the selector and the evaluator return, a session runs at
\* most maximum_iterations agent turns, and every step of a running session
\* strictly lowers a non-negative rank, so the session ends.
C1_BoundedTurns == [][BoundedStep]_vars

\* a session ended by the iteration ceiling, its last score below threshold
C1_Witness ==
  /\ pc = "done"
  /\ cfg.maximum_iterations = MaxIterations
  /\ Cardinality(SessionTurns) = MaxIterations
  /\ check.called /\ ~check.verdict

\* C2: every session in which no backend call failed ends with a non-empty
\* stream whose only artifact event is its last event.
C2_OneArtifactLast ==
  (pc \in Ended /\ failure \notin BackendFailures) => StreamWellFormed

\* C3: every message of the transcript a session works on was seeded or
\* appended by that session.
C3_SessionIsolation ==
  pc \in Running => \A k \in 1..Len(history) : history[k].sess = session

C5_FailSafeLaw ==
  (check.called /\ ~PyFloat(check.out).ok) =>
     /\ ~check.verdict
     /\ check.logged
     /\ pc = "describe" => (~is_complete /\ failure = "")

\* the turn after a non-numeric evaluation is under way
C5_Witness ==
  /\ pc = "agent"
  /\ check.called /\ check.out = "8/10"
  /\ i = 2

\* C6: a selection that yields no value, an unparseable value or a name that
\* is no roster member makes the first roster member speak, and raises nothing.
C6_FallbackLaw ==
  (selection \notin {NotAsked, CallFailed} /\ selection \notin Names(cfg.agents)) =>
     /\ selected = cfg.agents[1]
     /\ failure # "AgentChatException: failed to select agent"

\* the half of C6 that the code implements: no value selects the first agent
C6_Witness ==
  /\ pc = "agent"
  /\ selection = NoValue
  /\ cfg.agents = <<Critic, Writer>>
  /\ selected = Critic

\* C7: a valid configuration without a termination prompt yields a built
\* DebatePattern.
C7_IterationOnlyPath ==
  (build # "none" /\ ~cfg.termination_function
     /\ Len(cfg.agents) >= 1 /\ cfg.maximum_iterations >= 1
     /\ Names(cfg.termination_agents) \subseteq Names(cfg.agents))
  => build = "built"

\* C8: a configuration with a termination agent whose name no roster agent
\* carries is rejected and no debate runs; termination agents whose names
\* are all roster names do not get an otherwise valid configuration rejected.
C8_RosterReferentialIntegrity ==
  build # "none" =>
    /\ ~(Names(cfg.termination_agents) \subseteq Names(cfg.agents)) =>
         (build = "rejected" /\ session = 0 /\ history = <<>> /\ pc = "idle")
    /\ ( /\ Names(cfg.termination_agents) \subseteq Names(cfg.agents)
         /\ Len(cfg.agents) >= 1
         /\ cfg.maximum_iterations >= 1 ) => build # "rejected"

\* a rejected configuration whose only fault is the termination agent
C8_Witness ==
  /\ build = "rejected"
  /\ cfg.agents = <<Writer>>
  /\ cfg.termination_agents = <<Critic>>
  /\ cfg.maximum_iterations >= 1

\* C9: a configuration with an empty roster or a maximum_iterations below 1
\* is rejected and no session runs on it; every session runs on a
\* configuration that is valid.
C9_FailFast ==
  /\ (build # "none" /\ (Len(cfg.agents) = 0 \/ cfg.maximum_iterations < 1)) =>
       (build = "rejected" /\ session = 0 /\ history = <<>> /\ pc = "idle")
  /\ session > 0 =>
       /\ build = "built"
       /\ Len(cfg.agents) >= 1
       /\ cfg.maximum_iterations >= 1
       /\ Names(cfg.termination_agents) \subseteq Names(cfg.agents)

\* a rejected configuration whose only fault is maximum_iterations = 0
C9_Witness ==
  /\ build = "rejected"
  /\ cfg.agents = <<Writer, Critic>>
  /\ cfg.termination_agents = <<Critic>>
  /\ cfg.maximum_iterations = 0

\* C10: no session with a configured result extractor ends with the
\* extractor's exception.
C10_ExtractorFailureCaught ==
  cfg.result_extractor # "None" => failure # "IndexError: result_extractor"

\* position in the chat history of the message the session's artifact event
\* carries; 0 when it carries the "No results available" placeholder
Artifact == stream[Len(stream)].msg

\* positions of the transcript whose author name is the first roster member's
ByFirstAgent == { k \in 1..Len(history) : history[k].name = cfg.agents[1].name }

\* C11: with no result extractor, when the transcript holds a message
\* authored by the first roster member, the final artifact is the most
\* recently appended of those messages.
C11_DefaultLastOfFirstAgent ==
  (pc = "done" /\ cfg.result_extractor = "None" /\ ByFirstAgent # {}) =>
     /\ stream[Len(stream)].kind = "artifact"
     /\ Artifact \in ByFirstAgent
     /\ \A k \in ByFirstAgent : k <= Artifact

\* a finished session whose first agent spoke twice: the artifact is the
\* later message
C11_Witness ==
  /\ pc = "done"
  /\ cfg.result_extractor = "None"
  /\ Cardinality(ByFirstAgent) >= 2
  /\ Artifact = Len(history)
  /\ session = 1

\* C12: with no result extractor and no message authored by the first roster
\* member, the final artifact is the most recent message of the transcript,
\* and the placeholder only when the transcript is empty.
C12_DefaultFallbackMostRecent ==
  (pc = "done" /\ cfg.result_extractor = "None" /\ ByFirstAgent = {}) =>
     /\ stream[Len(stream)].kind = "artifact"
     /\ Artifact = Len(history)

\* positions of the chat history that agent turns appended, in any session
AllTurns == { k \in 1..Len(history) : history[k].turn > 0 }

\* C13: the iteration count of the debate has grown by one for each
\* completed agent turn (a turn is completed when its termination check has
\* run) and never exceeds maximum_iterations.
C13_IterationCountLaw ==
  build = "built" =>
    /\ iteration <= cfg.maximum_iterations
    /\ (pc # "terminate" => iteration = Cardinality(AllTurns))

\* a step of a session after a stop verdict, and a step from an ended session
IrreversibleStep ==
  /\ (check.verdict /\ session' = session) =>
        /\ check' = check
        /\ is_complete' = is_complete
        /\ history' = history
        /\ i' = i
        /\ pc' \notin {"select", "agent", "terminate"}
        /\ (pc = "loop" => pc' = "extract")
  /\ (pc \in Ended /\ session' = session) => UNCHANGED vars

\* C14: once a termination check of a session returned stop, that session
\* makes no further speaker selection, agent turn or termination check and
\* its loop goes on to result extraction; an ended session takes no step.
C14_VerdictIrreversible == [][IrreversibleStep]_vars

\* a session stopped by its verdict before the iteration limit, and finished
C14_Witness ==
  /\ pc = "done"
  /\ check.verdict
  /\ i < cfg.maximum_iterations

C16_ScenarioB ==
  (build = "built" /\ cfg.kernel = "B") =>
    /\ pc # "failed" /\ failure = ""
    /\ ~check.verdict /\ ~is_complete
    /\ Cardinality(SessionTurns) <= ScenarioIterations
    /\ pc \in {"extract", "done"} =>
         /\ i = ScenarioIterations
         /\ Cardinality(SessionTurns) = ScenarioIterations
    /\ pc = "done" =>
         /\ StreamWellFormed
         /\ Artifact \in SessionTurns
         /\ history[Artifact].name = "Writer"
         /\ \A k \in SessionTurns : history[k].name = "Writer" => k <= Artifact

\* scenario B has finished after six turns, the Critic scored on the last
C16_Witness ==
  /\ build = "built"
  /\ cfg.kernel = "B"
  /\ pc = "done"
  /\ Cardinality(SessionTurns) = ScenarioIterations
  /\ check.called /\ check.turn = ScenarioIterations
  /\ history[Artifact].name = "Writer"

\* a step in which the reply-generation backend fails, a step of a session
\* that it ended, and a step that ends a session
GenerationFailureStep ==
  /\ (pc = "agent" /\ pc' = "failed") =>
        /\ failure' = "GenerationError"
        /\ history' = history
        /\ stream' = stream
        /\ ArtifactPositions' = {}
        /\ span' = "closed"
  /\ (failure = "GenerationError" /\ session' = session) => UNCHANGED vars
  /\ (pc' = "failed") <=> (failure' # "")
  /\ pc' \in Ended => (failure' # "" \/ StreamWellFormed')

\* C17: a failure of the reply-generation backend during a turn leaves
\* run_debate as an exception (the stream fails), the call is not retried,
\* the session runs no further turn, and a session never ends without
\* either a failure or a final artifact as its last event.
C17_GenerationErrorSurfaced == [][GenerationFailureStep]_vars

\* the backend failed in the second turn, after a status event was streamed
C17_Witness ==
  /\ pc = "failed"
  /\ failure = "GenerationError"
  /\ i = 2
  /\ stream # <<>>
  /\ ArtifactPositions = {}

\* the describe step hands control back to the loop and leaves the
\* transcript, the verdict, the turn count and the speaker as they were
DescribeFrameStep ==
  pc = "describe" =>
    /\ pc' = "loop"
    /\ failure' = failure
    /\ history' = history
    /\ is_complete' = is_complete
    /\ i' = i
    /\ selected' = selected

\* C18: whatever describe_next_action returns, and whether or not it fails,
\* the session goes on as it would have: the call changes nothing of the
\* control state and the loop continues.
C18_DescribeHasNoControlEffect == [][DescribeFrameStep]_vars

\* the messages of the chat history loaded from the current session's seed,
\* and the seed messages whose role is user or assistant
LoadedSeq == SelectSeq(history, LAMBDA m : m.sess = session /\ m.turn = 0)
KeptSeq == SelectSeq(seed, LAMBDA m : m.role = "user" \/ m.role = "assistant")

\* C19: the messages a session loaded from its seed are exactly the seed
\* messages of role user or assistant, in the seed's order; other roles are
\* dropped without an error; all are loaded before the first selection.
C19_SeedFilter ==
  session >= 1 =>
    LET loaded == LoadedSeq
        kept == KeptSeq
    IN /\ Len(loaded) = Len(kept)
       /\ \A n \in 1..Len(kept) :
            /\ loaded[n].role = kept[n].role
            /\ loaded[n].name = kept[n].name
       /\ \A k \in 1..(Len(history) - 1) :
            history[k].sess = session =>
              /\ history[k + 1].sess = session
              /\ history[k].turn <= history[k + 1].turn
       /\ pc = "invoke" => failure = ""

\* a seed with a system message went in, and only its user message is loaded
\* when the first speaker is about to be selected
C19_Witness ==
  /\ session = 1
  /\ seed = << SystemMsg, UserMsg >>
  /\ pc = "select"
  /\ i = 1
  /\ Len(LoadedSeq) = 1
  /\ LoadedSeq[1].role = "user"

\* turn numbers of the replies the current session has appended
TurnNumbers == { history[k].turn : k \in SessionTurns }

\* C20: the turns of a session are strictly ordered: when turn N+1 is at its
\* speaker selection or agent invocation, the replies of turns 1..N are in
\* the transcript and the termination check of turn N has completed; replies
\* appear in turn order, one per turn.
C20_TurnsStrictlyOrdered ==
  (session >= 1 /\ pc \in Running) =>
    /\ \A k1, k2 \in SessionTurns :
         k1 < k2 => history[k1].turn < history[k2].turn
    /\ pc \in {"select", "agent"} =>
         /\ TurnNumbers = 1..(i - 1)
         /\ check.turn = i - 1
         /\ i > 1 => check.made
    /\ pc = "terminate" =>
         /\ TurnNumbers = 1..i
         /\ check.turn = i - 1
    /\ pc \in {"describe", "loop", "extract"} =>
         /\ TurnNumbers = 1..i
         /\ check.turn = i
         /\ i >= 1 => check.made

\* the second turn is at its speaker selection: the first reply is in the
\* transcript and its termination check is done
C20_Witness ==
  /\ pc = "select"
  /\ i = 2
  /\ TurnNumbers = {1}
  /\ check.made /\ check.turn = 1

\* C21: the roster of every successfully constructed configuration has no two
\* agents of the same name.
C21_UniqueRosterNames ==
  build \in {"init_failed", "built"} =>
    \A j, k \in 1..Len(cfg.agents) :
      cfg.agents[j].name = cfg.agents[k].name => j = k

\* a termination check: with a subset configured, a speaker outside it is
\* not scored and the debate goes on; with none, the speaker is scored
EligibilityStep ==
  pc = "terminate" =>
    /\ (cfg.termination_agents # <<>>
          /\ selected.id \notin Ids(cfg.termination_agents)) =>
         /\ pc' = "describe"
         /\ ~is_complete'
         /\ ~check'.called /\ ~check'.verdict
         /\ iteration' = iteration
    /\ cfg.termination_agents = <<>> =>
         /\ iteration' = iteration + 1
         /\ pc' = "describe" => check'.called
    /\ is_complete' =>
         /\ check'.called /\ check'.verdict
         /\ cfg.termination_agents # <<>> =>
              selected.id \in Ids(cfg.termination_agents)

\* C22: with a subset of termination agents configured, only a turn spoken
\* by one of them can stop the debate by score; after a turn of any other
\* roster agent the evaluator is not called and the debate continues. With
\* no subset, every roster agent's turn is scored.
C22_OnlyTerminationAgentsStop == [][EligibilityStep]_vars

\* with termination_agents = [Critic]: the Writer's turn went unscored after
\* an earlier turn, and the debate continues
C22_Witness ==
  /\ build = "built"
  /\ cfg.termination_agents = << Critic >>
  /\ cfg.agents = << Writer, Critic >>
  /\ pc = "describe"
  /\ selected = Writer
  /\ check.made /\ ~check.called
  /\ ~is_complete

\* the extraction step leaves the transcript as it was, and extracting again
\* from the transcript it leaves gives the artifact it yielded (or raises
\* again where it raised)
IdempotentExtractionStep ==
  pc = "extract" =>
    /\ history' = history
    /\ pc' = "done" =>
         /\ stream'[Len(stream')].kind = "artifact"
         /\ stream'[Len(stream')].msg = Extraction(history', cfg)
    /\ pc' = "failed" => Extraction(history', cfg) = "raises"

SpanStep ==
  /\ (span # "open" /\ span' = "open") => session' = session + 1
  /\ session' = session + 1 => (span # "open" /\ span' = "open")
  /\ pc' \in {"invoke", "loop", "select", "agent", "terminate", "describe"} =>
       span' = "open"
  /\ pc' \in {"extract", "done", "failed", "abandoned"} => span' = "closed"

\* C24: each session acquires its span once, at its start, and releases it
\* once, however the session leaves its loop (completion, a failure, the
\* consumer abandoning the stream); every agent turn runs with the span open.
C24_SpanScoped == [][SpanStep]_vars

\* the consumer walked away after the first status event: the span is closed
C24_Witness ==
  /\ pc = "abandoned"
  /\ span = "closed"
  /\ Len(messages) = 1
  /\ failure = ""

\* positions of the stream holding the initial message and the status events
\* of describe_next_action
InitialPositions == { k \in 1..Len(stream) : stream[k].src = "initial" }
NextActionPositions == { k \in 1..Len(stream) : stream[k].src = "next_action" }

\* C26: a non-empty initial_message is the first event of the stream, emitted
\* before any speaker selection or agent turn, and is emitted once; without
\* one, no such event is emitted and the first event is the status event of
\* the first agent turn.
C26_InitialMessageFirst ==
  session >= 1 =>
    /\ initial_message =>
         /\ InitialPositions = {1}
         /\ pc = "invoke" =>
              (stream = << StatusEvent("initial", 0) >> /\ SessionTurns = {}
                 /\ selection = NotAsked)
    /\ ~initial_message =>
         /\ InitialPositions = {}
         /\ stream # <<>> =>
              /\ stream[1] = StatusEvent("next_action", 1)
              /\ SessionTurns # {}
    /\ pc \in {"invoke", "select", "agent", "terminate"} /\ i <= 1 =>
         stream = InitialEvents(initial_message)

\* a session given an initial message has finished after at least one turn
C26_Witness ==
  /\ initial_message
  /\ pc = "done"
  /\ stream[1].src = "initial"
  /\ stream[2].src = "next_action"
  /\ Len(stream) >= 3

\* C27: every agent message of the turn loop is followed by one status
\* event, emitted before the next turn starts; a completed session has as
\* many status events as agent turns, plus one for an initial message; the
\* messages given to describe_next_action are the session's agent messages
\* so far, in order, without the seed.
C27_OneStatusPerTurn ==
  session >= 1 =>
    LET described == SelectSeq(stream, LAMBDA e : e.src = "next_action")
        turns == Cardinality(SessionTurns)
    IN /\ \A n \in 1..Len(messages) :
            /\ history[messages[n]].sess = session
            /\ history[messages[n]].turn = n
       /\ \A n \in 1..Len(described) : described[n].msg = n
       /\ Len(described) = Len(messages) \/ pc = "failed"
       /\ pc \in {"loop", "extract", "done"} => Len(messages) = turns
       /\ pc \in {"select", "agent"} =>
            /\ Len(messages) = i - 1
            /\ Len(described) = i - 1
       /\ pc = "done" =>
            Len(SelectSeq(stream, LAMBDA e : e.kind = "status"))
              = turns + (IF initial_message THEN 1 ELSE 0)

\* a second session on the same pattern has completed two turns: its two
\* status events described its own two messages
C27_Witness ==
  /\ session = 2
  /\ pc = "done"
  /\ Len(messages) = 2
  /\ Cardinality(NextActionPositions) = 2
  /\ messages[1] > 2

\* an incoming message of a chat whose session holds a client and a matching
\* agent definition is answered by the agent, and the thread is stored
FrontendDispatchStep ==
  (/\ chat.started
   /\ chat.client # "None"
   /\ chat.agent # "None"
   /\ Len(chat'.received) = Len(chat.received) + 1) =>
    /\ chat'.responses = chat.responses + 1
    /\ chat'.sent[Len(chat'.sent)] =
         [kind |-> "response", to |-> chat'.received[Len(chat'.received)]]
    /\ chat'.thread # "None"

\* C25: once on_chat_start has stored a client and a matching agent
\* definition, on_message passes each incoming message to the agent
\* (get_response on the stored thread), replies with the response and stores
\* the returned thread.
C25_MessageReachesAgent == [][FrontendDispatchStep]_vars

\* one setup call: no kind is ever registered twice, a kind is registered
\* exactly when its flag is set, and a call for an initialised kind, like
\* any call for another kind, leaves the kind's registration as it was
TelemetryStep ==
  \A k \in TelemetryKinds :
    /\ telemetry'.registered[k] <= 1
    /\ telemetry'.initialized[k] <=> (telemetry'.registered[k] = 1)
    /\ telemetry.initialized[k] =>
         /\ telemetry'.initialized[k]
         /\ telemetry'.registered[k] = telemetry.registered[k]
    /\ telemetry'.calls[k] = telemetry.calls[k] =>
         telemetry'.registered[k] = telemetry.registered[k]

\* C28: over any sequence of calls to set_up_tracing, set_up_metrics and
\* set_up_logging, the tracer provider, the meter provider and the logging
\* handler are each registered at most once, and a call made after a
\* successful initialisation of its kind changes nothing.
C28_NoDuplicateRegistration == [][TelemetryStep]_vars

\* tracing was set up, and set_up_tracing was called twice more; logging was
\* called without an exporter and then with one
C28_Witness ==
  /\ telemetry.initialized["tracing"]
  /\ telemetry.calls["tracing"] = 3
  /\ telemetry.registered["tracing"] = 1
  /\ telemetry.initialized["logging"]
  /\ telemetry.calls["logging"] >= 2
  /\ ~telemetry.initialized["metrics"]
  /\ telemetry.calls["metrics"] >= 1

\* the call a step of the loader issued, if it issued one
Issued == Len(loader'.calls) = Len(loader.calls) + 1
IssuedCall == loader'.calls[Len(loader'.calls)]

\* one step of the loader: a file gives one create or update call for its
\* name; a create is for a name that no agent on the service holds at that
\* moment; under RELOAD a create finds no agent left of those listed at start
LoaderStep ==
  /\ loader'.at = loader.at + 1 =>
       /\ Issued
       /\ IssuedCall.op \in {"create", "update"}
       /\ IssuedCall.name = loader.specs[loader'.at]
  /\ (Issued /\ IssuedCall.op \in {"create", "update"}) =>
       loader'.at = loader.at + 1
  /\ (Issued /\ IssuedCall.op = "create") =>
       /\ IssuedCall.name \notin NamesOf(loader.service)
       /\ loader.reload => loader.service \cap loader.listed = {}

\* C29: in one run of the loader, each YAML spec causes exactly one
\* create_agent or update_agent call; create_agent is never issued for a name
\* held by an agent existing at that moment; with RELOAD set, every
\* pre-existing agent is deleted before the first create.
C29_LoaderCreateOrUpdate == [][LoaderStep]_vars

====
